---- MODULE Spec2Model ----
(***************************************************************************)
(* A model of treeTheil.py: the Theil tree is built from rows              *)
(* (tree_structure), summed from the leaves up (leaf_up_tree) and then     *)
(* queried (node_weight, node_entdev, theil, xwin_theil, change_comps).    *)
(*                                                                         *)
(* Strings are sequences of one-character strings, so that the node ids    *)
(* the code concatenates with '|' and later splits on '|' are modelled     *)
(* character by character.  Group dictionaries live in a heap and nodes    *)
(* hold their addresses, so that sharing one dictionary between two nodes  *)
(* is expressible.  Numbers are exact fractions <<n, d>>; math.log is a    *)
(* fixed rational approximation of the base-2 logarithm.                   *)
(***************************************************************************)
EXTENDS Integers, Sequences, FiniteSets, TLC

VARIABLES pc, tree, heap, nrows, row, call

vars == <<pc, tree, heap, nrows, row, call>>

(***************************************************************************)
(* Bounds of the model.                                                    *)
(***************************************************************************)
\* rows read from csvdict before the iterator is exhausted
MaxRows == 2
\* the same, where the rows are drawn from PlainRows and the tree is queried
MaxPlainRows == 3
\* largest "recursions" argument passed to theil / win_theil_cmp
MaxRecursions == 1

(***************************************************************************)
(* The inputs of theilTree(csvdict, root, levels, groups).                 *)
(***************************************************************************)
SEP == "|"
root == <<"r">>
\* two levels: a tree of depth 2, the shallowest with interior nodes
levels == <<"year", "city">>
groups == <<"white", "black">>
\* values a level field of a row may hold: plain ones and one holding '|'
LevelVals == {<<"1">>, <<"2">>, <<"1", SEP, "1">>}
\* values a group field of a row may hold (non-negative counts)
GroupVals == {0, 1}
Rows == [year : LevelVals, city : LevelVals, white : GroupVals, black : GroupVals]
\* the rows none of whose level values holds the separator
PlainVals == {v \in LevelVals : SEP \notin {v[i] : i \in 1..Len(v)}}
PlainRows == [year : PlainVals, city : PlainVals, white : GroupVals, black : GroupVals]
\* rows whose city labels need not be year labels too
CityVals == {<<"2">>, <<"3">>}
CrossRows == [year : PlainVals, city : CityVals, white : GroupVals, black : GroupVals]
NoRow == [year |-> <<>>, city |-> <<>>, white |-> 0, black |-> 0]

\* Python's None, where an identifier is expected (identifiers are non-empty)
None == <<>>
EmptyDict == [k \in {} |-> 0]
Range(s) == {s[i] : i \in 1..Len(s)}

(***************************************************************************)
(* treelib.Tree as the code uses it: the nodes in insertion order, each    *)
(* one [id, pred, data], data being the Thile object [groups, lunit] with  *)
(* groups the heap address of the node's dictionary.                       *)
(***************************************************************************)
Thile(g, lunit) == [groups |-> g, lunit |-> lunit]

contains(t, nid) == \E i \in 1..Len(t) : t[i].id = nid

index_of(t, nid) == CHOOSE i \in 1..Len(t) : t[i].id = nid

get_node(t, nid) == t[index_of(t, nid)]

create_node(t, nid, pid, data) == Append(t, [id |-> nid, pred |-> pid, data |-> data])

parent(t, nid) == get_node(t, nid).pred

children(t, nid) == SelectSeq(t, LAMBDA n : n.pred = nid)

is_leaf(t, nid) == ~\E i \in 1..Len(t) : t[i].pred = nid

RECURSIVE rsearch(_, _)
rsearch(t, nid) ==
    IF parent(t, nid) = None THEN <<nid>>
    ELSE Append(rsearch(t, parent(t, nid)), nid)

level(t, nid) == Len(rsearch(t, nid)) - 1

ids(t) == [i \in 1..Len(t) |-> t[i].id]

leaves(t) == SelectSeq(ids(t), LAMBDA nid : is_leaf(t, nid))

paths_to_leaves(t) == [i \in 1..Len(leaves(t)) |-> rsearch(t, leaves(t)[i])]

groups_of(t, h, nid) == h[get_node(t, nid).data.groups]

(***************************************************************************)
(* tree_structure: one row of the loop over csvdict.                       *)
(***************************************************************************)
Float(x) == x

leaf_data(r) == [g \in Range(groups) |-> Float(r[g])]

RECURSIVE tree_structure_levels(_, _, _, _, _)
tree_structure_levels(t, h, r, i, pid) ==
    IF i > Len(levels) THEN [tree |-> t, heap |-> h]
    ELSE LET nid == pid \o <<SEP>> \o r[levels[i]]
             lunit == r[levels[i]]
         IN  IF contains(t, nid)
             THEN tree_structure_levels(t, h, r, i + 1, nid)
             ELSE IF i = Len(levels)
             THEN tree_structure_levels(
                      create_node(t, nid, pid, Thile(Len(h) + 1, lunit)),
                      Append(h, leaf_data(r)), r, i + 1, nid)
             ELSE tree_structure_levels(
                      create_node(t, nid, pid, Thile(Len(h) + 1, lunit)),
                      Append(h, EmptyDict), r, i + 1, nid)

tree_structure_row(t, h, r) == tree_structure_levels(t, h, r, 1, root)

(***************************************************************************)
(* leaf_up_tree, inc_dict and deepcopy_node_data.                          *)
(***************************************************************************)
keys(d) == SelectSeq(groups, LAMBDA g : g \in DOMAIN d)

RECURSIVE inc_dict_keys(_, _, _, _, _)
inc_dict_keys(h, from, to, ks, k) ==
    IF k > Len(ks) THEN [heap |-> h, exc |-> "none"]
    ELSE IF ks[k] \notin DOMAIN h[from] THEN [heap |-> h, exc |-> "KeyError"]
    ELSE inc_dict_keys([h EXCEPT ![to][ks[k]] = @ + h[from][ks[k]]],
                       from, to, ks, k + 1)

inc_dict(h, fromDict, toDict) == inc_dict_keys(h, fromDict, toDict, keys(h[toDict]), 1)

set_groups(t, nid, addr) == [t EXCEPT ![index_of(t, nid)].data.groups = addr]

\* the bug the docstring warns of: the parent is handed the leaf's dictionary
copy_node_data(t, h, fromNode, toNode) ==
    [tree |-> set_groups(t, toNode, get_node(t, fromNode).data.groups),
     heap |-> h]

deepcopy_node_data(t, h, fromNode, toNode) ==
    [tree |-> set_groups(t, toNode, Len(h) + 1),
     heap |-> Append(h, h[get_node(t, fromNode).data.groups])]

RECURSIVE leaf_up_path(_, _, _, _, _)
leaf_up_path(t, h, leaf, path, k) ==
    IF k > Len(path) THEN [tree |-> t, heap |-> h, exc |-> "none"]
    ELSE IF DOMAIN groups_of(t, h, path[k]) = {}
    THEN LET s == deepcopy_node_data(t, h, leaf, path[k])
         IN  leaf_up_path(s.tree, s.heap, leaf, path, k + 1)
    ELSE LET s == inc_dict(h, get_node(t, leaf).data.groups,
                           get_node(t, path[k]).data.groups)
         IN  IF s.exc # "none" THEN [tree |-> t, heap |-> s.heap, exc |-> s.exc]
             ELSE leaf_up_path(t, s.heap, leaf, path, k + 1)

RECURSIVE leaf_up_paths(_, _, _, _)
leaf_up_paths(t, h, paths, j) ==
    IF j > Len(paths) THEN [tree |-> t, heap |-> h, exc |-> "none"]
    ELSE LET path == paths[j]
             leaf == path[Len(path)]
             s == leaf_up_path(t, h, leaf, SubSeq(path, 1, Len(path) - 1), 1)
         IN  IF s.exc # "none" THEN s
             ELSE leaf_up_paths(s.tree, s.heap, paths, j + 1)

leaf_up_tree(t, h) == leaf_up_paths(t, h, paths_to_leaves(t), 1)

(***************************************************************************)
(* Numbers.  A float is modelled by the exact fraction <<n, d>> in lowest  *)
(* terms with d > 0; the result of an expression is [exc, v], exc naming   *)
(* the exception it raised ("none" when it returned v).  Operands are      *)
(* evaluated left to right, so the left operand's exception wins.          *)
(***************************************************************************)
RECURSIVE GCD(_, _)
GCD(a, b) == IF b = 0 THEN a ELSE GCD(b, a % b)

Abs(a) == IF a < 0 THEN -a ELSE a

Frac(n, d) ==
    LET g == GCD(Abs(n), Abs(d))
        sg == IF d < 0 THEN -1 ELSE 1
    IN  <<(sg * n) \div g, (sg * d) \div g>>

Ok(q) == [exc |-> "none", v |-> q]

Raise(e) == [exc |-> e, v |-> <<0, 1>>]

Num(n) == Ok(<<n, 1>>)

IsZero(a) == a.v[1] = 0

Add(a, b) ==
    IF a.exc # "none" THEN a ELSE IF b.exc # "none" THEN b
    ELSE Ok(Frac(a.v[1] * b.v[2] + b.v[1] * a.v[2], a.v[2] * b.v[2]))

Sub(a, b) ==
    IF a.exc # "none" THEN a ELSE IF b.exc # "none" THEN b
    ELSE Ok(Frac(a.v[1] * b.v[2] - b.v[1] * a.v[2], a.v[2] * b.v[2]))

Mul(a, b) ==
    IF a.exc # "none" THEN a ELSE IF b.exc # "none" THEN b
    ELSE Ok(Frac(a.v[1] * b.v[1], a.v[2] * b.v[2]))

Div(a, b) ==
    IF a.exc # "none" THEN a ELSE IF b.exc # "none" THEN b
    ELSE IF IsZero(b) THEN Raise("ZeroDivisionError")
    ELSE Ok(Frac(a.v[1] * b.v[2], a.v[2] * b.v[1]))

(***************************************************************************)
(* math.log(x, 2): a rational approximation of the base-2 logarithm, in    *)
(* sixteenths, additive over the prime factors of numerator and            *)
(* denominator (so log(1) = 0 and log(x) > 0 for the x > 1 that arise).    *)
(***************************************************************************)
RECURSIVE FloorLog2(_)
FloorLog2(n) == IF n < 2 THEN 0 ELSE 1 + FloorLog2(n \div 2)

LogPrime16(p) ==
    CASE p = 2 -> 16 [] p = 3 -> 25 [] p = 5 -> 37 [] p = 7 -> 45
      [] p = 11 -> 55 [] p = 13 -> 59 [] p = 17 -> 65 [] p = 19 -> 68
      [] OTHER -> 16 * FloorLog2(p) + 8

RECURSIVE LogNat16(_)
LogNat16(n) ==
    IF n = 1 THEN 0
    ELSE LET p == CHOOSE q \in 2..n : n % q = 0 /\ \A m \in 2..(q - 1) : n % m # 0
         IN  LogPrime16(p) + LogNat16(n \div p)

log2(x) ==
    IF x.exc # "none" THEN x
    ELSE IF x.v[1] <= 0 THEN Raise("ValueError")
    ELSE Ok(Frac(LogNat16(x.v[1]) - LogNat16(x.v[2]), 16))

(***************************************************************************)
(* class Thile: total() and entropy() of a group dictionary.               *)
(***************************************************************************)
RECURSIVE sum_values(_, _, _)
sum_values(d, ks, k) ==
    IF k > Len(ks) THEN 0 ELSE d[ks[k]] + sum_values(d, ks, k + 1)

total(d) == Num(sum_values(d, keys(d), 1))

entropy_term(d, foo) ==
    IF foo = 0 THEN Num(0)
    ELSE Mul(Div(Num(Float(foo)), total(d)), log2(Div(total(d), Num(Float(foo)))))

RECURSIVE entropy_sum(_, _, _)
entropy_sum(d, ks, k) ==
    IF k > Len(ks) THEN Num(0)
    ELSE Add(entropy_term(d, d[ks[k]]), entropy_sum(d, ks, k + 1))

entropy(d) == entropy_sum(d, keys(d), 1)

(***************************************************************************)
(* Functions for working with Theil trees.  tree.parent(nid) is None at    *)
(* the root, and None.data raises AttributeError.                          *)
(***************************************************************************)
node_total(t, h, nid) == total(groups_of(t, h, nid))

node_entropy(t, h, nid) == entropy(groups_of(t, h, nid))

parent_total(t, h, nid) ==
    IF parent(t, nid) = None THEN Raise("AttributeError")
    ELSE node_total(t, h, parent(t, nid))

parent_entropy(t, h, nid) ==
    IF parent(t, nid) = None THEN Raise("AttributeError")
    ELSE node_entropy(t, h, parent(t, nid))

\* node_weight without its guard on the parent's total
node_weight_unguarded(t, h, nid) ==
    LET pt == parent_total(t, h, nid)
    IN  IF pt.exc # "none" THEN pt
        ELSE Div(node_total(t, h, nid), pt)

node_weight(t, h, nid) ==
    LET pt == parent_total(t, h, nid)
    IN  IF pt.exc # "none" THEN pt
        ELSE IF IsZero(pt) THEN Num(0)
        ELSE Div(node_total(t, h, nid), pt)

node_diversity(t, h, nid) ==
    LET pe == parent_entropy(t, h, nid)
    IN  IF pe.exc # "none" THEN pe
        ELSE IF IsZero(pe) THEN Num(0)
        ELSE Div(node_entropy(t, h, nid), pe)

node_entdev(t, h, nid) ==
    LET pe == parent_entropy(t, h, nid)
    IN  IF pe.exc # "none" THEN pe
        ELSE IF IsZero(pe) THEN Num(0)
        ELSE Div(Sub(pe, node_entropy(t, h, nid)), pe)

RECURSIVE node_weight_recur(_, _, _)
node_weight_recur(t, h, nid) ==
    IF level(t, nid) = 0 THEN Num(1)
    ELSE Mul(node_weight(t, h, nid), node_weight_recur(t, h, parent(t, nid)))

RECURSIVE node_diversity_recur(_, _, _)
node_diversity_recur(t, h, nid) ==
    IF level(t, nid) = 0 THEN Num(1)
    ELSE Mul(node_diversity(t, h, nid), node_diversity_recur(t, h, parent(t, nid)))

theil_cmp(t, h, nid) == Mul(node_weight(t, h, nid), node_entdev(t, h, nid))

\* theil with the child's statistic weighted by node_weight alone
RECURSIVE theil_weight_only(_, _, _, _)
RECURSIVE theil_weight_only_loop(_, _, _, _, _, _)
theil_weight_only_loop(t, h, cs, recursions, k, the_theil) ==
    IF k > Len(cs) THEN the_theil
    ELSE IF recursions = 0
    THEN theil_weight_only_loop(t, h, cs, recursions, k + 1,
                                Add(the_theil, theil_cmp(t, h, cs[k].id)))
    ELSE theil_weight_only_loop(t, h, cs, recursions, k + 1,
                                Add(Add(the_theil, theil_cmp(t, h, cs[k].id)),
                                    Mul(node_weight(t, h, cs[k].id),
                                        theil_weight_only(t, h, cs[k].id, recursions - 1))))

theil_weight_only(t, h, nid, recursions) ==
    theil_weight_only_loop(t, h, children(t, nid), recursions, 1, Num(0))

RECURSIVE theil(_, _, _, _)
RECURSIVE theil_loop(_, _, _, _, _, _)
theil_loop(t, h, cs, recursions, k, the_theil) ==
    IF k > Len(cs) THEN the_theil
    ELSE IF recursions = 0
    THEN theil_loop(t, h, cs, recursions, k + 1,
                    Add(the_theil, theil_cmp(t, h, cs[k].id)))
    ELSE theil_loop(t, h, cs, recursions, k + 1,
                    Add(Add(the_theil, theil_cmp(t, h, cs[k].id)),
                        Mul(Mul(node_weight(t, h, cs[k].id),
                                node_diversity(t, h, cs[k].id)),
                            theil(t, h, cs[k].id, recursions - 1))))

theil(t, h, nid, recursions) == theil_loop(t, h, children(t, nid), recursions, 1, Num(0))

btw_theil(t, h, nid) == theil(t, h, nid, 0)

\* win_theil_cmp scaled by the child's weight alone
win_theil_cmp_weight_only(t, h, child_nid, recursions) ==
    Mul(theil(t, h, child_nid, recursions), node_weight(t, h, child_nid))

win_theil_cmp(t, h, child_nid, recursions) ==
    Mul(Mul(theil(t, h, child_nid, recursions), node_weight(t, h, child_nid)),
        node_diversity(t, h, child_nid))

filter_nodes(t, lunit) == SelectSeq(t, LAMBDA n : n.data.lunit = lunit)

RECURSIVE xwin_theil_loop(_, _, _, _, _)
xwin_theil_loop(t, h, ns, k, acc) ==
    IF k > Len(ns) THEN acc
    ELSE xwin_theil_loop(t, h, ns, k + 1,
             Add(acc, Mul(Mul(node_entdev(t, h, ns[k].id),
                              node_weight_recur(t, h, ns[k].id)),
                          node_diversity_recur(t, h, ns[k].id))))

xwin_theil(t, h, lunit) == xwin_theil_loop(t, h, filter_nodes(t, lunit), 1, Num(0))

(***************************************************************************)
(* Python's str.split('|'), '|'.join, int() and str() on strings as        *)
(* character sequences.                                                    *)
(***************************************************************************)
RECURSIVE split(_)
split(s) ==
    IF SEP \notin Range(s) THEN <<s>>
    ELSE LET i == CHOOSE j \in 1..Len(s) : s[j] = SEP /\ \A m \in 1..(j - 1) : s[m] # SEP
         IN  <<SubSeq(s, 1, i - 1)>> \o split(SubSeq(s, i + 1, Len(s)))

RECURSIVE join(_)
join(parts) ==
    IF Len(parts) = 0 THEN <<>>
    ELSE IF Len(parts) = 1 THEN parts[1]
    ELSE parts[1] \o <<SEP>> \o join(Tail(parts))

Digits == <<"0", "1", "2", "3", "4", "5", "6", "7", "8", "9">>

digit_value(c) == (CHOOSE i \in 1..Len(Digits) : Digits[i] = c) - 1

RECURSIVE digits_value(_)
digits_value(s) ==
    IF Len(s) = 0 THEN 0
    ELSE 10 * digits_value(SubSeq(s, 1, Len(s) - 1)) + digit_value(s[Len(s)])

\* int(s) for the strings that arise: decimal digits, or ValueError
int(s) ==
    IF Len(s) = 0 \/ \E i \in 1..Len(s) : s[i] \notin Range(Digits)
    THEN [exc |-> "ValueError", n |-> 0]
    ELSE [exc |-> "none", n |-> digits_value(s)]

RECURSIVE str_nat(_)
str_nat(n) ==
    IF n < 10 THEN <<Digits[n + 1]>>
    ELSE Append(str_nat(n \div 10), Digits[(n % 10) + 1])

str(n) == IF n < 0 THEN <<"-">> \o str_nat(-n) ELSE str_nat(n)

(***************************************************************************)
(* The multi-tree: mtree_stage, mtree_nid, mtree_root and change_comps.    *)
(***************************************************************************)
mtree_stage(t, nid) == split(get_node(t, nid).id)[2]

mtree_nid(t, nid) ==
    join(SubSeq(split(get_node(t, nid).id), 3, Len(split(get_node(t, nid).id))))

mtree_root(t, nid) == split(get_node(t, nid).id)[1]

oldnid_of(t, nid) ==
    join(<<mtree_root(t, nid), str(int(mtree_stage(t, nid)).n - 1), mtree_nid(t, nid)>>)

change_comps_values(t, h, nid, oldnid) ==
    LET Ej_new == node_entropy(t, h, nid)
        E_new == parent_entropy(t, h, nid)
        wj_new == node_total(t, h, nid)
        w_new == parent_total(t, h, nid)
        Ej == node_entropy(t, h, oldnid)
        E == parent_entropy(t, h, oldnid)
        wj == node_total(t, h, oldnid)
        w == parent_total(t, h, oldnid)
        pj == node_weight(t, h, oldnid)
        ej == node_entdev(t, h, oldnid)
        dotE == Sub(E_new, E)
        dotEj == Sub(Ej_new, Ej)
        dotwj == Sub(wj_new, wj)
        dotw == Sub(w_new, w)
        seg_comp == Mul(pj, Div(Sub(Mul(dotE, Ej), Mul(E, dotEj)), Mul(E, Add(E, dotE))))
        pop_comp == Mul(pj, Mul(ej, Sub(Div(dotwj, wj), Div(dotw, w))))
    IN  IF seg_comp.exc # "none" THEN Raise(seg_comp.exc)
        ELSE IF pop_comp.exc # "none" THEN Raise(pop_comp.exc)
        ELSE [exc |-> "none", v |-> <<seg_comp.v, pop_comp.v>>]

change_comps(t, h, nid) ==
    IF parent(t, nid) = None THEN Raise("AttributeError")
    ELSE IF Len(split(get_node(t, nid).id)) < 2 THEN Raise("IndexError")
    ELSE IF int(mtree_stage(t, nid)).exc # "none" THEN Raise("ValueError")
    ELSE IF ~contains(t, oldnid_of(t, nid)) THEN Raise("NodeIDAbsentError")
    ELSE change_comps_values(t, h, nid, oldnid_of(t, nid))

(***************************************************************************)
(* theilTree as a state machine: the tree is created with its root, rows   *)
(* are read one at a time, and when the rows end leaf_up_tree runs; it     *)
(* returns ("done") or lets inc_dict's KeyError out ("raised").            *)
(***************************************************************************)
NoCall == [op |-> "none", nid |-> None, arg |-> 0, ret |-> <<0, 1>>, exc |-> "none"]

Init ==
    /\ pc = "build"
    /\ tree = create_node(<<>>, root, None, Thile(1, root))
    /\ heap = <<EmptyDict>>
    /\ nrows = 0
    /\ row = NoRow
    /\ call = NoCall

TreeStructureRowFrom(R, max) ==
    /\ pc = "build"
    /\ nrows < max
    /\ \E r \in R :
          LET s == tree_structure_row(tree, heap, r)
          IN  /\ tree' = s.tree
              /\ heap' = s.heap
              /\ row' = r
    /\ nrows' = nrows + 1
    /\ UNCHANGED <<pc, call>>

TreeStructureRow == TreeStructureRowFrom(Rows, MaxRows)

TreeStructurePlainRow == TreeStructureRowFrom(PlainRows, MaxPlainRows)

TreeStructureCrossRow == TreeStructureRowFrom(CrossRows, MaxPlainRows)

LeafUpTree ==
    /\ pc = "build"
    /\ LET s == leaf_up_tree(tree, heap)
       IN  /\ tree' = s.tree
           /\ heap' = s.heap
           /\ pc' = IF s.exc = "none" THEN "done" ELSE "raised"
    /\ row' = NoRow
    /\ UNCHANGED <<nrows, call>>

Next == TreeStructureRow \/ LeafUpTree

Spec == Init /\ [][Next]_vars

(***************************************************************************)
(* The same machine with the leaf-to-root paths handed to leaf_up_tree's   *)
(* loop in any order, not only the order paths_to_leaves returns.          *)
(***************************************************************************)
permute(s, f) == [i \in 1..Len(s) |-> s[f[i]]]

LeafUpTreeAnyOrder ==
    /\ pc = "build"
    /\ \E f \in Permutations(1..Len(paths_to_leaves(tree))) :
          LET s == leaf_up_paths(tree, heap, permute(paths_to_leaves(tree), f), 1)
          IN  /\ tree' = s.tree
              /\ heap' = s.heap
              /\ pc' = IF s.exc = "none" THEN "done" ELSE "raised"
    /\ row' = NoRow
    /\ UNCHANGED <<nrows, call>>

NextOrder == TreeStructureRow \/ LeafUpTreeAnyOrder

SpecOrder == Init /\ [][NextOrder]_vars

(***************************************************************************)
(* Vocabulary of the claims about the built and the aggregated tree.       *)
(***************************************************************************)
NodeIds(t) == Range(ids(t))

\* the level values along the path from the root to a node, root excluded
lunit_path(t, nid) == [i \in 1..level(t, nid) |-> get_node(t, rsearch(t, nid)[i + 1]).data.lunit]

\* the level values of a row, in the order of levels
row_path(r) == [i \in 1..Len(levels) |-> r[levels[i]]]

row_leaf_id(r) == join(<<root>> \o row_path(r))

LeafDescendants(t, nid) == {l \in Range(leaves(t)) : nid \in Range(rsearch(t, l))}

RECURSIVE SumOver(_, _, _, _)
SumOver(t, h, S, k) ==
    IF S = {} THEN 0
    ELSE LET l == CHOOSE x \in S : TRUE
         IN  groups_of(t, h, l)[k] + SumOver(t, h, S \ {l}, k)

RECURSIVE SumValues(_, _)
SumValues(d, S) ==
    IF S = {} THEN 0
    ELSE LET k == CHOOSE x \in S : TRUE
         IN  d[k] + SumValues(d, S \ {k})

Total(d) == SumValues(d, DOMAIN d)

Returned == pc \in {"done", "queried"}

(***************************************************************************)
(* The queries.  Each is a pure function of the aggregated tree, so one    *)
(* call is recorded per run: its name, arguments and outcome.              *)
(***************************************************************************)
Query(op, nid, arg, res) ==
    /\ pc = "done"
    /\ pc' = "queried"
    /\ call' = [op |-> op, nid |-> nid, arg |-> arg, ret |-> res.v, exc |-> res.exc]
    /\ UNCHANGED <<tree, heap, nrows, row>>

Entropy == \E nid \in NodeIds(tree) : Query("entropy", nid, 0, node_entropy(tree, heap, nid))

NodeWeight == \E nid \in NodeIds(tree) : Query("node_weight", nid, 0, node_weight(tree, heap, nid))

NodeEntdev == \E nid \in NodeIds(tree) : Query("node_entdev", nid, 0, node_entdev(tree, heap, nid))

Theil ==
    \E nid \in NodeIds(tree) : \E r \in 0..MaxRecursions :
        Query("theil", nid, r, theil(tree, heap, nid, r))

BtwTheil == \E nid \in NodeIds(tree) : Query("btw_theil", nid, 0, btw_theil(tree, heap, nid))

\* theil(tree, n, r) with r <= MaxRecursions needs its children's share at r - 1
WinTheilCmp ==
    \E nid \in NodeIds(tree) : \E r \in 0..(MaxRecursions - 1) :
        Query("win_theil_cmp", nid, r, win_theil_cmp(tree, heap, nid, r))

XwinTheil ==
    \E lunit \in LevelVals \cup CityVals \cup {root} :
        Query("xwin_theil", lunit, 0, xwin_theil(tree, heap, lunit))

ChangeComps == \E nid \in NodeIds(tree) : Query("change_comps", nid, 0, change_comps(tree, heap, nid))

Build == TreeStructurePlainRow \/ LeafUpTree

NextGuard == Build \/ Entropy \/ NodeWeight \/ NodeEntdev

SpecGuard == Init /\ [][NextGuard]_vars

NextTheil == Build \/ Theil \/ BtwTheil \/ WinTheilCmp

SpecTheil == Init /\ [][NextTheil]_vars

NextXwin == TreeStructureCrossRow \/ LeafUpTree \/ XwinTheil \/ BtwTheil

SpecXwin == Init /\ [][NextXwin]_vars

NextChange == Build \/ ChangeComps

SpecChange == Init /\ [][NextChange]_vars

(***************************************************************************)
(* C1.  After theilTree returns, every node's groups[key] is the sum of    *)
(* groups[key] over the leaves of the node's subtree, for every group key, *)
(* and so every node's total is the sum of its leaf descendants' totals.   *)
(***************************************************************************)
C1_Conservation ==
    Returned =>
        \A nid \in NodeIds(tree) :
            LET L == LeafDescendants(tree, nid)
                g == groups_of(tree, heap, nid)
            IN  /\ \A l \in L : DOMAIN groups_of(tree, heap, l) = DOMAIN g
                /\ \A k \in DOMAIN g : g[k] = SumOver(tree, heap, L, k)
                /\ \A k \in Range(groups) : nrows > 0 => k \in DOMAIN g
                /\ Total(g) = SumValues([l \in L |-> Total(groups_of(tree, heap, l))], L)

\* an aggregated tree whose root sums two leaves that both hold counts
C1_Witness ==
    /\ pc = "done"
    /\ Cardinality(LeafDescendants(tree, root)) = 2
    /\ \A l \in LeafDescendants(tree, root) : Total(groups_of(tree, heap, l)) > 0
    /\ Total(groups_of(tree, heap, root)) > 1

(***************************************************************************)
(* C2.  A row whose level values are those of an earlier row (it reaches   *)
(* the leaf that row created) adds its group values to the leaf's counts.  *)
(***************************************************************************)
C2_DuplicateRowsIncrement ==
    [][(/\ pc = "build"
        /\ nrows' = nrows + 1
        /\ contains(tree, row_leaf_id(row'))
        /\ lunit_path(tree, row_leaf_id(row')) = row_path(row'))
       => \A k \in Range(groups) :
              groups_of(tree', heap', row_leaf_id(row'))[k]
                  = groups_of(tree, heap, row_leaf_id(row'))[k] + row'[k]]_vars

(***************************************************************************)
(* C3.  leaf_up_tree's outcome does not depend on the order in which the   *)
(* leaf-to-root paths are processed: any order ends as the order of        *)
(* paths_to_leaves does, with the same group mapping at every node.        *)
(***************************************************************************)
C3_OrderIndependent ==
    [][(pc = "build" /\ pc' # "build")
       => LET s == leaf_up_tree(tree, heap)
          IN  /\ (pc' = "done") = (s.exc = "none")
              /\ \A nid \in NodeIds(tree) :
                     groups_of(tree', heap', nid) = groups_of(s.tree, s.heap, nid)]_vars

(***************************************************************************)
(* C7.  After any prefix of the rows the tree is one rooted tree: the root *)
(* alone has no parent, every other node's parent is the node's id with    *)
(* its last '|'-separated value removed, the path of level values of the   *)
(* row just read has its own node at every depth, a node's depth is the    *)
(* number of level values in its id, ids are not duplicated, and only      *)
(* nodes at depth len(levels) hold a non-empty group mapping.              *)
(***************************************************************************)
drop_last(nid) == join(SubSeq(split(nid), 1, Len(split(nid)) - 1))

C7_RootedTree ==
    pc = "build" =>
        /\ tree[1].id = root /\ tree[1].pred = None
        /\ \A i \in 2..Len(tree) :
               /\ tree[i].pred = drop_last(tree[i].id)
               /\ contains(tree, tree[i].pred)
               /\ level(tree, tree[i].id) = Len(split(tree[i].id)) - 1
        /\ \A i, j \in 1..Len(tree) : tree[i].id = tree[j].id => i = j
        /\ nrows > 0 =>
               \A d \in 1..Len(levels) :
                   \E nid \in NodeIds(tree) : lunit_path(tree, nid) = SubSeq(row_path(row), 1, d)
        /\ \A nid \in NodeIds(tree) :
               DOMAIN groups_of(tree, heap, nid) # {} => level(tree, nid) = Len(levels)

(***************************************************************************)
(* C9.  leaf_up_tree leaves the node set, the parents, the level labels    *)
(* and every leaf's group mapping as they were, and afterwards no two      *)
(* nodes hold the same dictionary.                                         *)
(***************************************************************************)
C9_LeafUpFrame ==
    [][(pc = "build" /\ pc' # "build")
       => /\ ids(tree') = ids(tree)
          /\ \A i \in 1..Len(tree) :
                 /\ tree'[i].pred = tree[i].pred
                 /\ tree'[i].data.lunit = tree[i].data.lunit
          /\ \A l \in Range(leaves(tree)) :
                 groups_of(tree', heap', l) = groups_of(tree, heap, l)
          /\ \A i, j \in 1..Len(tree) :
                 tree'[i].data.groups = tree'[j].data.groups => i = j]_vars

\* an aggregated node that copied its first leaf and then had a second leaf
\* with counts added into it
C9_Witness ==
    /\ pc = "done"
    /\ \E nid \in NodeIds(tree) :
          /\ nid # root
          /\ Len(children(tree, nid)) = 2
          /\ Total(groups_of(tree, heap, children(tree, nid)[2].id)) > 0
          /\ Total(groups_of(tree, heap, children(tree, nid)[1].id)) > 0

(***************************************************************************)
(* Vocabulary of the claims about the queries.                             *)
(***************************************************************************)
ChildIds(t, nid) == {n.id : n \in Range(children(t, nid))}

\* the sum of the results f[x], x in S
RECURSIVE SumRes(_, _)
SumRes(f, S) ==
    IF S = {} THEN Num(0)
    ELSE LET x == CHOOSE y \in S : TRUE
         IN  Add(f[x], SumRes(f, S \ {x}))

CallIs(op) == pc = "queried" /\ call.op = op

Returns(res) == call.exc = "none" /\ res.exc = "none" /\ call.ret = res.v

(***************************************************************************)
(* C4.  theil(tree, id, depth) is the sum over id's children c of          *)
(* theil_cmp(c) plus, when depth > 0, the sum over the children of         *)
(* node_weight(c) * theil(tree, c, depth - 1), with no other factor.       *)
(***************************************************************************)
C4_TheilWeightOnly ==
    CallIs("theil") =>
        LET C == ChildIds(tree, call.nid)
            cmp == SumRes([c \in C |-> theil_cmp(tree, heap, c)], C)
            rec == SumRes([c \in C |-> Mul(node_weight(tree, heap, c),
                                           theil(tree, heap, c, call.arg - 1))], C)
        IN  Returns(IF call.arg > 0 THEN Add(cmp, rec) ELSE cmp)

(***************************************************************************)
(* C4, amended.  theil(tree, id, depth) is the sum over id's children c of *)
(* theil_cmp(c) plus, when depth > 0, the sum over the children of         *)
(* node_weight(c) * node_diversity(c) * theil(tree, c, depth - 1); at      *)
(* depth 0 it is the sum of theil_cmp over the children.                   *)
(***************************************************************************)
C4_TheilWeightDiversity ==
    CallIs("theil") =>
        LET C == ChildIds(tree, call.nid)
            cmp == SumRes([c \in C |-> theil_cmp(tree, heap, c)], C)
            rec == SumRes([c \in C |-> Mul(Mul(node_weight(tree, heap, c),
                                               node_diversity(tree, heap, c)),
                                           theil(tree, heap, c, call.arg - 1))], C)
        IN  Returns(IF call.arg > 0 THEN Add(cmp, rec) ELSE cmp)

\* theil was called with depth > 0 on a node one of whose children has a
\* non-zero Theil statistic of its own and a diversity other than 0 and 1
C4_Witness ==
    /\ CallIs("theil")
    /\ call.arg > 0
    /\ \E c \in ChildIds(tree, call.nid) :
          /\ ~IsZero(theil(tree, heap, c, call.arg - 1))
          /\ ~IsZero(node_weight(tree, heap, c))
          /\ node_diversity(tree, heap, c).v \notin {<<0, 1>>, <<1, 1>>}

(***************************************************************************)
(* C5.  Summing xwin_theil(tree, label) over the distinct labels of the    *)
(* first level below the root gives btw_theil(tree, root), the labels of   *)
(* that level being those of no node of another level.                     *)
(***************************************************************************)
C5_CrossTotal ==
    LET labels == {n.data.lunit : n \in Range(children(tree, root))}
    IN  (/\ Returned
         /\ \A nid \in NodeIds(tree) :
                get_node(tree, nid).data.lunit \in labels => level(tree, nid) = 1)
        => SumRes([l \in labels |-> xwin_theil(tree, heap, l)], labels)
               = btw_theil(tree, heap, root)

(***************************************************************************)
(* C6.  On an aggregated tree node_weight of a node under the root or      *)
(* deeper returns, and returns 0 when the parent's total is 0;             *)
(* node_entdev returns, and returns 0 when the parent's entropy is 0;      *)
(* entropy() returns, and returns 0 on a node whose counts are all zero.   *)
(***************************************************************************)
C6_ZeroGuard ==
    /\ (CallIs("node_weight") /\ call.nid # root) =>
           /\ call.exc = "none"
           /\ Total(groups_of(tree, heap, parent(tree, call.nid))) = 0 => call.ret = <<0, 1>>
    /\ (CallIs("node_entdev") /\ call.nid # root) =>
           /\ call.exc = "none"
           /\ IsZero(node_entropy(tree, heap, parent(tree, call.nid))) => call.ret = <<0, 1>>
    /\ CallIs("entropy") =>
           /\ call.exc = "none"
           /\ Total(groups_of(tree, heap, call.nid)) = 0 => call.ret = <<0, 1>>

\* node_weight was called on a node whose parent holds only zero counts
C6_Witness ==
    /\ CallIs("node_weight")
    /\ call.nid # root
    /\ \A k \in Range(groups) : groups_of(tree, heap, parent(tree, call.nid))[k] = 0
    /\ call.ret = <<0, 1>>

(***************************************************************************)
(* C8.  change_comps(mtree, nid) on a node other than the root whose stage *)
(* is a number fails with the not-found error exactly when the tree has no *)
(* node whose path is nid's path with the stage replaced by stage - 1.     *)
(***************************************************************************)
predecessor_path(t, nid) ==
    [lunit_path(t, nid) EXCEPT ![1] = str(int(@).n - 1)]

C8_PredecessorLookup ==
    (/\ CallIs("change_comps")
     /\ call.nid # root
     /\ int(lunit_path(tree, call.nid)[1]).exc = "none")
    => ((call.exc = "NodeIDAbsentError")
            <=> ~\E m \in NodeIds(tree) :
                    lunit_path(tree, m) = predecessor_path(tree, call.nid))

(***************************************************************************)
(* C10.  For r >= 1, theil(tree, n, r) is btw_theil(tree, n) plus the sum  *)
(* over n's children c of win_theil_cmp(tree, c, r - 1).                   *)
(***************************************************************************)
C10_BetweenPlusWithin ==
    (CallIs("theil") /\ call.arg >= 1) =>
        LET C == ChildIds(tree, call.nid)
        IN  Returns(Add(btw_theil(tree, heap, call.nid),
                        SumRes([c \in C |-> win_theil_cmp(tree, heap, c, call.arg - 1)], C)))

\* theil was called with r >= 1 on a node with a non-zero between component
\* and a child with a non-zero within component
C10_Witness ==
    /\ CallIs("theil")
    /\ call.arg >= 1
    /\ ~IsZero(btw_theil(tree, heap, call.nid))
    /\ \E c \in ChildIds(tree, call.nid) :
          /\ ~IsZero(win_theil_cmp(tree, heap, c, call.arg - 1))
          /\ node_diversity(tree, heap, c).v # <<1, 1>>

====
